---- MODULE Spec2Model ----
(***************************************************************************)
(* Model of the transfer path of src/telegram_bot.py: process_file, which  *)
(* classifies a received file by its declared size, upload_small_file      *)
(* (one files_upload call) and upload_large_file (the Dropbox upload       *)
(* session protocol driven from the chunks of the Telegram CDN stream).    *)
(*                                                                         *)
(* Sizes are counted in MiB: the three size constants of the source are    *)
(* whole multiples of 1 MiB, and a byte count of 4 GiB does not fit the    *)
(* integers of the model checker.                                          *)
(*                                                                         *)
(* The collaborators (Telegram Bot API, Telegram CDN, Dropbox, the status  *)
(* message) are the environment: every call to one of them either returns  *)
(* or raises, and the model records what was called in `calls` and `msgs`. *)
(***************************************************************************)
EXTENDS Integers, Sequences, FiniteSets

(* ------------------------------------------------------------------ *)
(* Program constants (MiB)                                              *)
(* ------------------------------------------------------------------ *)
MAX_SMALL_FILE_SIZE == 20

MAX_TELEGRAM_FILE_SIZE == 4096

CHUNK_SIZE == 8

\* file_size of a Telegram object that carries none: getattr(file_obj,
\* 'file_size', 0) yields None when the attribute is present and unset.
NoneSize == -1

\* The response status initialize_dropbox accepts.
HTTP_OK == 200

\* The divisor of format_file_size.
Radix == 1024

(* ------------------------------------------------------------------ *)
(* Bounds of the model                                                  *)
(* ------------------------------------------------------------------ *)
\* A declared size in the chunked range that is not a multiple of CHUNK_SIZE.
SampleSize == 50

\* A declared size in the inline range.
SmallSample == 10

\* How many reads of one stream may return fewer bytes than were available.
MaxShortReads == 2

\* The length of such a short read.
ShortReadLen == 3

\* A response status other than 200.
OtherStatus == 404

\* The longest argument of format_file_size, in base-1024 digits.
MaxDigits == 5

\* Declared sizes handed to process_file.
DeclaredSizes ==
    { 0, SmallSample, MAX_SMALL_FILE_SIZE, MAX_SMALL_FILE_SIZE + 1,
      SampleSize - 2, SampleSize,
      MAX_TELEGRAM_FILE_SIZE, MAX_TELEGRAM_FILE_SIZE + 1,
      MAX_TELEGRAM_FILE_SIZE + 1024, NoneSize }

\* Lengths of the byte stream the source actually delivers.
StreamSizes ==
    { 0, ShortReadLen, CHUNK_SIZE, MAX_SMALL_FILE_SIZE + 1, SampleSize - 2,
      SampleSize, SampleSize + CHUNK_SIZE - 2, SampleSize + CHUNK_SIZE + 1 }

\* Declared sizes handed to upload_large_file when it is called on its own.
DirectSizes == { 0, ShortReadLen, MAX_SMALL_FILE_SIZE + 1 }

VARIABLES
    pc,          \* position of the handler
    file_size,   \* declared size of the object (NoneSize: None)
    strategy,    \* branch process_file took: "none", "TooLarge", "Inline", "Chunked"
    success,     \* return value of upload_*_file: "unset", "True", "False"
    session_id,  \* upload_large_file: session_id (0: not started)
    offset,      \* upload_large_file: offset
    chunk_num,   \* upload_large_file: chunk_num
    chunk,       \* upload_large_file: len(chunk) of the chunk in hand
    streamLen,   \* bytes the source stream delivers in total (-1: not opened)
    remaining,   \* bytes of the stream not read yet
    shortReads,  \* short reads the stream has made so far
    calls,       \* calls issued to the source provider and the storage service
    msgs,        \* calls issued to the messaging front end
    escaped,     \* an exception left process_file
    issued,      \* storage service: upload sessions issued so far
    cur,         \* which transfer the variables above belong to
    parked,      \* a second transfer, suspended at an await: its variables
    cancelAt,    \* Len(calls) when the transfer was cancelled (-1: it was not)
    boot,        \* start() and initialize_dropbox(): position and fields
    fmt          \* format_file_size: argument and result

\* The variables of one transfer: the locals of process_file and of the
\* upload function it calls, and the calls that transfer has issued.
locals == << pc, file_size, strategy, success, session_id, offset, chunk_num,
             chunk, streamLen, remaining, shortReads, calls, msgs, escaped >>

\* What a step of a transfer leaves alone, the storage service apart.
rest == << cur, parked, cancelAt, boot, fmt >>

vars == << pc, file_size, strategy, success, session_id, offset, chunk_num,
           chunk, streamLen, remaining, shortReads, calls, msgs, escaped,
           issued, cur, parked, cancelAt, boot, fmt >>

(* ------------------------------------------------------------------ *)
(* Helpers over the call logs                                           *)
(* ------------------------------------------------------------------ *)
Call(op, sid, off, len, ok) ==
    [op |-> op, sid |-> sid, off |-> off, len |-> len, ok |-> ok]

Msg(kind, num, off, ok) ==
    [kind |-> kind, num |-> num, off |-> off, ok |-> ok]

SourceOps == {"get_file", "download", "cdn_get", "read"}

StorageOps == {"put", "begin", "append", "finish"}

CallsOf(ops) == SelectSeq(calls, LAMBDA c : c.op \in ops)

NumCalls(ops) == Len(CallsOf(ops))

RECURSIVE SumLen(_)
SumLen(s) == IF s = << >> THEN 0 ELSE Head(s).len + SumLen(Tail(s))

\* Outcomes of a call to the messaging front end (reply_text, edit_text):
\* it returns or it raises.
MsgOutcomes == {TRUE, FALSE}


Min(a, b) == IF a < b THEN a ELSE b

(* ------------------------------------------------------------------ *)
(* Pure parts of the handlers                                           *)
(* ------------------------------------------------------------------ *)
\* Variant: the status message shows the chunk number before the increment.
NextChunkNumLate(n) == n

\* upload_large_file: `chunk_num += 1` at the top of the loop body.
NextChunkNum(n) == n + 1

\* Variant: the session id is read from a place every transfer writes (the
\* id of the session the service issued last), not from the local.
CursorSessionShared(local, last) == last

\* upload_large_file: UploadSessionCursor(session_id, offset) carries the
\* local session_id of the call.
CursorSession(local, last) == local

\* Variant: the limit itself is refused (>= for >).
SelectStrategyLimitRefused(size) ==
    IF size >= MAX_TELEGRAM_FILE_SIZE THEN "TooLarge"
    ELSE IF size <= MAX_SMALL_FILE_SIZE THEN "Inline"
    ELSE "Chunked"

\* Variant: the check against the maximum is missing.
SelectStrategyNoLimit(size) ==
    IF size <= MAX_SMALL_FILE_SIZE THEN "Inline" ELSE "Chunked"

\* process_file, the size checks: too large first, then inline or chunked.
SelectStrategy(size) ==
    IF size > MAX_TELEGRAM_FILE_SIZE THEN "TooLarge"
    ELSE IF size <= MAX_SMALL_FILE_SIZE THEN "Inline"
    ELSE "Chunked"

\* Where process_file goes once the strategy is chosen.
DispatchPc(strat) ==
    CASE strat = "TooLarge" -> "pf_too_large"
      [] strat = "Inline"   -> "small_get_file"
      [] strat = "Chunked"  -> "large_get_file"

\* Variant: > for >=.
IsLastChunkStrict(off, len, size) == off + len > size

\* Variant: the offset is left out of the comparison.
IsLastChunkNoOffset(off, len, size) == len >= size

\* Variant: a read shorter than CHUNK_SIZE is taken for the last one.
IsLastChunkShortRead(off, len, size) == off + len >= size \/ len < CHUNK_SIZE

\* Variant: no chunk is ever taken for the last one.
IsLastChunkNever(off, len, size) == FALSE

\* upload_large_file: `if offset + len(chunk) >= file_obj.file_size`.
IsLastChunk(off, len, size) == off + len >= size

\* Variant: the offset advances by the chunk size asked for, not by the
\* length of the chunk read.
NextOffsetFullChunk(off, len) == off + CHUNK_SIZE

\* upload_large_file: `offset += len(chunk)` after an append that returned.
NextOffset(off, len) == off + len

\* Variant: a call that raises is swallowed and the loop goes on.
AfterChunkCallSwallow(op, ok) ==
    IF ok /\ op = "finish" THEN [pc |-> "pf_result", success |-> "True"]
    ELSE [pc |-> "large_read", success |-> "unset"]

\* upload_large_file: what follows a storage call on a chunk. A finish that
\* returns breaks out of the loop and the function returns True; an append
\* that returns goes on to the next read; a call that raises is caught by
\* the function's except clause, which returns False.
AfterChunkCall(op, ok) ==
    IF ~ok THEN [pc |-> "pf_result", success |-> "False"]
    ELSE IF op = "finish" THEN [pc |-> "pf_result", success |-> "True"]
    ELSE [pc |-> "large_read", success |-> "unset"]

\* Variant: the status of the CDN response is not looked at.
AfterCdnGetAnyStatus(ok) == [pc |-> "large_read", success |-> "unset"]

\* upload_large_file: what follows the GET of the file from the CDN. A
\* response with status 200 is read chunk by chunk; with another status the
\* function returns False (lines 260-262), and so does the except clause
\* when the GET raises.
AfterCdnGet(ok) ==
    IF ok THEN [pc |-> "large_read", success |-> "unset"]
    ELSE [pc |-> "pf_result", success |-> "False"]

\* Variant: the except clause returns True as well.
SmallFileResultAlwaysTrue(ok) == "True"

\* upload_small_file: True when get_file, the download and files_upload all
\* returned, False (the except clause) when one of them raised.
SmallFileResult(ok) == IF ok THEN "True" ELSE "False"

\* Lengths a read of the stream may return: iter_chunked(CHUNK_SIZE) yields
\* at most CHUNK_SIZE bytes and at least one, and may yield fewer than are
\* left when only part of them has arrived.
ReadLens(rem, sr) ==
    { Min(CHUNK_SIZE, rem) } \cup
    ( IF sr < MaxShortReads /\ ShortReadLen < Min(CHUNK_SIZE, rem)
      THEN { ShortReadLen } ELSE { } )

(* ------------------------------------------------------------------ *)
(* Initial states                                                       *)
(* ------------------------------------------------------------------ *)
InitLocals ==
    /\ strategy = "none"
    /\ success = "unset"
    /\ session_id = 0
    /\ offset = 0
    /\ chunk_num = 0
    /\ chunk = 0
    /\ streamLen = -1
    /\ remaining = 0
    /\ shortReads = 0
    /\ calls = << >>
    /\ msgs = << >>
    /\ escaped = FALSE

\* The variables of a transfer that does not exist.
NoTransfer ==
    [ pc |-> "absent", file_size |-> 0, strategy |-> "none",
      success |-> "unset", session_id |-> 0, offset |-> 0, chunk_num |-> 0,
      chunk |-> 0, streamLen |-> -1, remaining |-> 0, shortReads |-> 0,
      calls |-> << >>, msgs |-> << >>, escaped |-> FALSE ]

\* A rendered size: "<whole>.<tenth> <unit>", or "<whole> <unit>" when
\* decimals is 0.
Rendered(unit, whole, tenth, decimals) ==
    [ unit |-> unit, whole |-> whole, tenth |-> tenth, decimals |-> decimals ]

\* format_file_size not called. n is its argument, as base-1024 digits with
\* the least significant first.
NoFormat == [ n |-> << >>, out |-> Rendered("none", 0, 0, 0) ]

\* start() not called yet. body is the text of the token URL's response, a
\* sequence of lexical items: "ws" whitespace, "T" the text of the valid
\* token, "x" other text, "7" a number, "{" "}" ":" punctuation, "k" the
\* string literal "access_token", "j" another string literal used as a key,
\* "s" the valid token as a string literal, "q" another string literal.
BootStart ==
    [ pc |-> "start", status |-> 0, body |-> << >>, access_token |-> << >>,
      dropbox_client |-> "None", handlers |-> FALSE, raised |-> "none" ]

\* start() has initialised Dropbox from a raw token, registered the
\* handlers and is polling.
BootPolling ==
    [ pc |-> "polling", status |-> HTTP_OK, body |-> << "T" >>,
      access_token |-> << "T" >>, dropbox_client |-> "Dropbox",
      handlers |-> TRUE, raised |-> "none" ]

InitRest ==
    /\ issued = 0
    /\ cur = 1
    /\ parked = NoTransfer
    /\ cancelAt = -1
    /\ fmt = NoFormat

\* A handler (handle_document, handle_photo, ...) is about to call
\* process_file on a received object.
Init ==
    /\ pc = "idle"
    /\ file_size = 0
    /\ InitLocals
    /\ InitRest
    /\ boot = BootPolling

\* upload_large_file called on its own, as a test of the method calls it.
InitDirect ==
    /\ pc = "large_get_file"
    /\ file_size \in DirectSizes
    /\ InitLocals
    /\ InitRest
    /\ boot = BootPolling

(* ------------------------------------------------------------------ *)
(* process_file                                                         *)
(* ------------------------------------------------------------------ *)
\* handle_*: an object with some declared size arrives.
Request ==
    /\ pc = "idle"
    /\ boot.pc = "polling"
    /\ \E s \in DeclaredSizes : file_size' = s
    /\ pc' = "pf_reply"
    /\ UNCHANGED << strategy, success, session_id, offset, chunk_num, chunk,
                    streamLen, remaining, shortReads, calls, msgs, escaped >>
    /\ UNCHANGED << issued, rest >>

\* The "Processing ..." reply. format_file_size(None) raises TypeError
\* before the reply is sent.
ProcessFileReply ==
    /\ pc = "pf_reply"
    /\ IF file_size = NoneSize
       THEN /\ pc' = "pf_except"
            /\ msgs' = msgs
       ELSE \E ok \in MsgOutcomes :
            /\ msgs' = Append(msgs, Msg("processing", 0, 0, ok))
            /\ pc' = IF ok THEN "pf_check" ELSE "pf_except"
    /\ UNCHANGED << file_size, strategy, success, session_id, offset,
                    chunk_num, chunk, streamLen, remaining, shortReads, calls,
                    escaped >>
    /\ UNCHANGED << issued, rest >>

\* The size checks and the choice of the upload method.
ProcessFileClassify ==
    /\ pc = "pf_check"
    /\ strategy' = SelectStrategy(file_size)
    /\ pc' = DispatchPc(strategy')
    /\ UNCHANGED << file_size, success, session_id, offset, chunk_num, chunk,
                    streamLen, remaining, shortReads, calls, msgs, escaped >>
    /\ UNCHANGED << issued, rest >>

\* The "File too large!" edit, then return.
ProcessFileTooLarge ==
    /\ pc = "pf_too_large"
    /\ \E ok \in MsgOutcomes :
        /\ msgs' = Append(msgs, Msg("too_large", 0, 0, ok))
        /\ pc' = IF ok THEN "done" ELSE "pf_except"
    /\ UNCHANGED << file_size, strategy, success, session_id, offset,
                    chunk_num, chunk, streamLen, remaining, shortReads, calls,
                    escaped >>
    /\ UNCHANGED << issued, rest >>

\* The "Upload successful!" or "Upload failed!" edit.
ProcessFileResult ==
    /\ pc = "pf_result"
    /\ \E ok \in MsgOutcomes :
        /\ msgs' = Append(msgs,
              Msg(IF success = "True" THEN "success" ELSE "failed", 0, 0, ok))
        /\ pc' = IF ok THEN "done" ELSE "pf_except"
    /\ UNCHANGED << file_size, strategy, success, session_id, offset,
                    chunk_num, chunk, streamLen, remaining, shortReads, calls,
                    escaped >>
    /\ UNCHANGED << issued, rest >>

\* except Exception: the "Error processing file" reply; when that reply
\* raises too, the exception leaves process_file.
ProcessFileExcept ==
    /\ pc = "pf_except"
    /\ \E ok \in MsgOutcomes :
        /\ msgs' = Append(msgs, Msg("error", 0, 0, ok))
        /\ escaped' = ~ok
    /\ pc' = "done"
    /\ UNCHANGED << file_size, strategy, success, session_id, offset,
                    chunk_num, chunk, streamLen, remaining, shortReads, calls >>
    /\ UNCHANGED << issued, rest >>

(* ------------------------------------------------------------------ *)
(* upload_small_file                                                    *)
(* ------------------------------------------------------------------ *)
\* file = await file_obj.get_file()
SmallGetFile ==
    /\ pc = "small_get_file"
    /\ \E ok \in BOOLEAN :
        /\ calls' = Append(calls, Call("get_file", 0, 0, 0, ok))
        /\ pc' = IF ok THEN "small_download" ELSE "pf_result"
        /\ success' = IF ok THEN success ELSE SmallFileResult(FALSE)
    /\ UNCHANGED << file_size, strategy, session_id, offset, chunk_num, chunk,
                    streamLen, remaining, shortReads, msgs, escaped >>
    /\ UNCHANGED << issued, rest >>

\* file_data = await file.download_as_bytearray(): the whole object.
SmallDownload ==
    /\ pc = "small_download"
    /\ \E ok \in BOOLEAN, n \in StreamSizes :
        /\ calls' = Append(calls, Call("download", 0, 0, n, ok))
        /\ streamLen' = n
        /\ pc' = IF ok THEN "small_upload" ELSE "pf_result"
        /\ success' = IF ok THEN success ELSE SmallFileResult(FALSE)
    /\ UNCHANGED << file_size, strategy, session_id, offset, chunk_num, chunk,
                    remaining, shortReads, msgs, escaped >>
    /\ UNCHANGED << issued, rest >>

\* self.dropbox_client.files_upload(file_data, ...), then return.
SmallUpload ==
    /\ pc = "small_upload"
    /\ \E ok \in BOOLEAN :
        /\ calls' = Append(calls, Call("put", 0, 0, streamLen, ok))
        /\ success' = SmallFileResult(ok)
    /\ pc' = "pf_result"
    /\ UNCHANGED << file_size, strategy, session_id, offset, chunk_num, chunk,
                    streamLen, remaining, shortReads, msgs, escaped >>
    /\ UNCHANGED << issued, rest >>

(* ------------------------------------------------------------------ *)
(* upload_large_file                                                    *)
(* ------------------------------------------------------------------ *)
\* file = await file_obj.get_file()
LargeGetFile ==
    /\ pc = "large_get_file"
    /\ \E ok \in BOOLEAN :
        /\ calls' = Append(calls, Call("get_file", 0, 0, 0, ok))
        /\ pc' = IF ok THEN "large_session_start" ELSE "pf_result"
        /\ success' = IF ok THEN success ELSE "False"
    /\ UNCHANGED << file_size, strategy, session_id, offset, chunk_num, chunk,
                    streamLen, remaining, shortReads, msgs, escaped >>
    /\ UNCHANGED << issued, rest >>

\* files_upload_session_start(b''): the service issues a session id.
LargeSessionStart ==
    /\ pc = "large_session_start"
    /\ \E ok \in BOOLEAN :
        /\ calls' = Append(calls,
              Call("begin", IF ok THEN issued + 1 ELSE 0, 0, 0, ok))
        /\ session_id' = IF ok THEN issued + 1 ELSE session_id
        /\ issued' = IF ok THEN issued + 1 ELSE issued
        /\ pc' = IF ok THEN "large_cdn_get" ELSE "pf_result"
        /\ success' = IF ok THEN success ELSE "False"
    /\ UNCHANGED << file_size, strategy, offset, chunk_num, chunk, streamLen,
                    remaining, shortReads, msgs, escaped >>
    /\ UNCHANGED rest

\* session.get(file_url): a 200 response opens the stream and sets offset
\* and chunk_num to 0; another status returns False; a connection error
\* raises into the except clause, which returns False too.
LargeCdnGet ==
    /\ pc = "large_cdn_get"
    /\ \/ \E n \in StreamSizes :
            /\ calls' = Append(calls, Call("cdn_get", 0, 0, n, TRUE))
            /\ streamLen' = n
            /\ remaining' = n
            /\ offset' = 0
            /\ chunk_num' = 0
            /\ pc' = AfterCdnGet(TRUE).pc
            /\ success' = AfterCdnGet(TRUE).success
       \/ /\ calls' = Append(calls, Call("cdn_get", 0, 0, 0, FALSE))
          /\ pc' = AfterCdnGet(FALSE).pc
          /\ success' = AfterCdnGet(FALSE).success
          /\ UNCHANGED << streamLen, remaining, offset, chunk_num >>
    /\ UNCHANGED << file_size, strategy, session_id, chunk, shortReads, msgs,
                    escaped >>
    /\ UNCHANGED << issued, rest >>

\* async for chunk in response.content.iter_chunked(CHUNK_SIZE): the next
\* chunk (chunk_num += 1), the end of the stream (the loop ends and the
\* function returns True), or a payload error (the except clause).
LargeReadChunk ==
    /\ pc = "large_read"
    /\ \/ /\ remaining > 0
          /\ \E n \in ReadLens(remaining, shortReads) :
                /\ chunk' = n
                /\ remaining' = remaining - n
                /\ shortReads' = IF n < Min(CHUNK_SIZE, remaining)
                                 THEN shortReads + 1 ELSE shortReads
                /\ calls' = Append(calls, Call("read", 0, 0, n, TRUE))
          /\ chunk_num' = NextChunkNum(chunk_num)
          /\ pc' = "large_progress"
          /\ success' = success
       \/ /\ remaining = 0
          /\ pc' = "pf_result"
          /\ success' = "True"
          /\ UNCHANGED << chunk, remaining, shortReads, chunk_num, calls >>
       \/ /\ remaining > 0
          /\ calls' = Append(calls, Call("read", 0, 0, 0, FALSE))
          /\ pc' = "pf_result"
          /\ success' = "False"
          /\ UNCHANGED << chunk, remaining, shortReads, chunk_num >>
    /\ UNCHANGED << file_size, strategy, session_id, offset, streamLen, msgs,
                    escaped >>
    /\ UNCHANGED << issued, rest >>

\* progress = (offset / file_obj.file_size) * 100 raises ZeroDivisionError
\* when file_size is 0; then the status message is edited.
LargeProgress ==
    /\ pc = "large_progress"
    /\ IF file_size = 0
       THEN /\ msgs' = msgs
            /\ pc' = "pf_result"
            /\ success' = "False"
       ELSE \E ok \in MsgOutcomes :
            /\ msgs' = Append(msgs, Msg("progress", chunk_num, offset, ok))
            /\ pc' = IF ok THEN "large_chunk" ELSE "pf_result"
            /\ success' = IF ok THEN success ELSE "False"
    /\ UNCHANGED << file_size, strategy, session_id, offset, chunk_num, chunk,
                    streamLen, remaining, shortReads, calls, escaped >>
    /\ UNCHANGED << issued, rest >>

\* The body of the loop after the progress edit: an empty chunk breaks; the
\* last chunk goes to files_upload_session_finish (then break), any other
\* to files_upload_session_append_v2 (then offset += len(chunk)).
LargeUploadChunk ==
    /\ pc = "large_chunk"
    /\ IF chunk = 0
       THEN /\ pc' = "pf_result"
            /\ success' = "True"
            /\ UNCHANGED << calls, offset >>
       ELSE \E ok \in BOOLEAN :
            LET op == IF IsLastChunk(offset, chunk, file_size)
                      THEN "finish" ELSE "append"
                next == AfterChunkCall(op, ok)
            IN  /\ calls' = Append(calls,
                                   Call(op, CursorSession(session_id, issued),
                                        offset, chunk, ok))
                /\ pc' = next.pc
                /\ success' = next.success
                /\ offset' = IF next.pc = "large_read"
                             THEN NextOffset(offset, chunk) ELSE offset
    /\ UNCHANGED << file_size, strategy, session_id, chunk_num, chunk,
                    streamLen, remaining, shortReads, msgs, escaped >>
    /\ UNCHANGED << issued, rest >>

(* ------------------------------------------------------------------ *)
(* Specifications                                                       *)
(* ------------------------------------------------------------------ *)
Next ==
    \/ Request
    \/ ProcessFileReply
    \/ ProcessFileClassify
    \/ ProcessFileTooLarge
    \/ ProcessFileResult
    \/ ProcessFileExcept
    \/ SmallGetFile
    \/ SmallDownload
    \/ SmallUpload
    \/ LargeGetFile
    \/ LargeSessionStart
    \/ LargeCdnGet
    \/ LargeReadChunk
    \/ LargeProgress
    \/ LargeUploadChunk

\* process_file on one received object.
Spec == Init /\ [][Next]_vars

NextDirect ==
    \/ LargeGetFile
    \/ LargeSessionStart
    \/ LargeCdnGet
    \/ LargeReadChunk
    \/ LargeProgress
    \/ LargeUploadChunk

\* upload_large_file on its own, up to its return.
SpecDirect == InitDirect /\ [][NextDirect]_vars

(* ------------------------------------------------------------------ *)
(* Two transfers at once                                                *)
(* ------------------------------------------------------------------ *)
\* Declared sizes of the transfers that run side by side.
ConcSizes == { MAX_SMALL_FILE_SIZE + 1 }

\* The variables of the running transfer, as one record.
Current ==
    [ pc |-> pc, file_size |-> file_size, strategy |-> strategy,
      success |-> success, session_id |-> session_id, offset |-> offset,
      chunk_num |-> chunk_num, chunk |-> chunk, streamLen |-> streamLen,
      remaining |-> remaining, shortReads |-> shortReads, calls |-> calls,
      msgs |-> msgs, escaped |-> escaped ]

\* Positions at which a coroutine is suspended in an await (or has
\* returned): the event loop may run another coroutine there. The Dropbox
\* calls are synchronous, so the positions before them are not among these.
SuspendedPcs ==
    { "pf_reply", "pf_too_large", "pf_result", "pf_except", "done",
      "small_get_file", "small_download",
      "large_get_file", "large_cdn_get", "large_read", "large_progress" }

\* Two calls of upload_large_file, both about to start.
InitConc ==
    /\ pc = "large_get_file"
    /\ file_size \in ConcSizes
    /\ InitLocals
    /\ issued = 0
    /\ cur = 1
    /\ \E s \in ConcSizes :
          parked = [ NoTransfer EXCEPT !.pc = "large_get_file", !.file_size = s ]
    /\ cancelAt = -1
    /\ fmt = NoFormat
    /\ boot = BootPolling

\* The running coroutine is suspended in an await and the event loop
\* resumes the other one: each coroutine keeps its own locals.
Switch ==
    /\ pc \in SuspendedPcs
    /\ parked.pc # "absent"
    /\ parked' = Current
    /\ cur' = 3 - cur
    /\ pc' = parked.pc
    /\ file_size' = parked.file_size
    /\ strategy' = parked.strategy
    /\ success' = parked.success
    /\ session_id' = parked.session_id
    /\ offset' = parked.offset
    /\ chunk_num' = parked.chunk_num
    /\ chunk' = parked.chunk
    /\ streamLen' = parked.streamLen
    /\ remaining' = parked.remaining
    /\ shortReads' = parked.shortReads
    /\ calls' = parked.calls
    /\ msgs' = parked.msgs
    /\ escaped' = parked.escaped
    /\ UNCHANGED << issued, cancelAt, boot, fmt >>

NextConc ==
    \/ LargeGetFile
    \/ LargeSessionStart
    \/ LargeCdnGet
    \/ LargeReadChunk
    \/ LargeProgress
    \/ LargeUploadChunk
    \/ Switch

\* Two calls of upload_large_file interleaved at their awaits.
SpecConc == InitConc /\ [][NextConc]_vars

(* ------------------------------------------------------------------ *)
(* start() and initialize_dropbox()                                     *)
(* ------------------------------------------------------------------ *)
\* The one token the Dropbox account accepts.
ValidToken == << "T" >>

RECURSIVE LStrip(_)
LStrip(t) == IF t # << >> /\ Head(t) = "ws" THEN LStrip(Tail(t)) ELSE t

RECURSIVE RStrip(_)
RStrip(t) ==
    IF t # << >> /\ t[Len(t)] = "ws"
    THEN RStrip(SubSeq(t, 1, Len(t) - 1))
    ELSE t

\* str.strip(): the text without its leading and trailing whitespace.
Strip(t) == RStrip(LStrip(t))

\* String literals used as keys, and literals used as values.
KeyLits == { "k", "j" }
ValLits == { "s", "q", "7" }

\* The Python value of a literal: "s" is the valid token in quotes.
Unquote(l) ==
    CASE l = "s" -> << "T" >>
      [] l = "q" -> << "x" >>
      [] OTHER   -> << l >>

\* json.loads(text): a dict (with or without the key access_token), a
\* value of another type (a string, a number), or JSONDecodeError.
\* Whitespace around the document is allowed.
JsonLoads(text) ==
    LET t == Strip(text) IN
    IF t = << "{", "}" >>
    THEN [ kind |-> "object", has |-> FALSE, field |-> << >> ]
    ELSE IF /\ Len(t) = 5
            /\ t[1] = "{" /\ t[2] \in KeyLits /\ t[3] = ":"
            /\ t[4] \in ValLits /\ t[5] = "}"
    THEN [ kind |-> "object", has |-> (t[2] = "k"), field |-> Unquote(t[4]) ]
    ELSE IF Len(t) = 1 /\ t[1] \in (KeyLits \cup ValLits)
    THEN [ kind |-> "other", has |-> FALSE, field |-> << >> ]
    ELSE [ kind |-> "invalid", has |-> FALSE, field |-> << >> ]

\* Lines 54-58 without the JSON branch: the token is always the trimmed body.
AccessTokenRawOnly(text) == [ raised |-> FALSE, token |-> Strip(text) ]

\* Lines 54-58: the access_token entry of a JSON object, the trimmed body
\* when the object has none or the body is not JSON; a JSON value that is
\* not an object has no get() and AttributeError is raised.
AccessToken(text) ==
    LET j == JsonLoads(text) IN
    CASE j.kind = "invalid" -> [ raised |-> FALSE, token |-> Strip(text) ]
      [] j.kind = "object"  ->
            [ raised |-> FALSE,
              token |-> IF j.has THEN j.field ELSE Strip(text) ]
      [] OTHER -> [ raised |-> TRUE, token |-> << >> ]

\* Response bodies the token URL may return.
Bodies ==
    { << "T" >>, << "ws", "T", "ws" >>, << "T", "ws" >>, << "x" >>,
      << >>, << "ws" >>, << "7" >>, << "s" >>,
      << "{", "}" >>,
      << "{", "k", ":", "s", "}" >>,
      << "ws", "{", "k", ":", "s", "}", "ws" >>,
      << "{", "k", ":", "q", "}" >>,
      << "{", "k", ":", "7", "}" >>,
      << "{", "j", ":", "s", "}" >>,
      << "{", "k", ":", "s" >> }

\* Response statuses the token URL may return.
Statuses == { HTTP_OK, OtherStatus }

\* initialize_dropbox() raises: every exception is wrapped (lines 64-66).
InitFailed(b) ==
    [ b EXCEPT !.pc = "failed", !.raised = "TelegramFileBotError" ]

InitStart ==
    /\ pc = "idle"
    /\ file_size = 0
    /\ InitLocals
    /\ InitRest
    /\ boot = BootStart

\* start() calls initialize_dropbox().
StartInit ==
    /\ boot.pc = "start"
    /\ boot' = [ boot EXCEPT !.pc = "init_get" ]
    /\ UNCHANGED << locals, issued, cur, parked, cancelAt, fmt >>

\* The GET of the token URL and the read of the body: either raises, or
\* answers with a status; the body is read for status 200 only.
InitFetch ==
    /\ boot.pc = "init_get"
    /\ \/ boot' = InitFailed(boot)
       \/ \E st \in Statuses, b \in Bodies :
             boot' = IF st = HTTP_OK
                     THEN [ boot EXCEPT !.pc = "init_parse", !.status = st,
                                        !.body = b ]
                     ELSE InitFailed([ boot EXCEPT !.status = st ])
    /\ UNCHANGED << locals, issued, cur, parked, cancelAt, fmt >>

\* The token is taken from the body.
InitParse ==
    /\ boot.pc = "init_parse"
    /\ LET a == AccessToken(boot.body) IN
       boot' = IF a.raised
               THEN InitFailed(boot)
               ELSE [ boot EXCEPT !.pc = "init_client",
                                  !.access_token = a.token ]
    /\ UNCHANGED << locals, issued, cur, parked, cancelAt, fmt >>

\* dropbox.Dropbox(access_token): the client is stored; the constructor
\* may refuse an empty token.
InitClient ==
    /\ boot.pc = "init_client"
    /\ \/ boot' = [ boot EXCEPT !.pc = "init_test",
                                !.dropbox_client = "Dropbox" ]
       \/ /\ boot.access_token = << >>
          /\ boot' = InitFailed(boot)
    /\ UNCHANGED << locals, issued, cur, parked, cancelAt, fmt >>

\* users_get_current_account(): returns for the valid token only, and may
\* raise for it too.
InitTest ==
    /\ boot.pc = "init_test"
    /\ \/ /\ boot.access_token = ValidToken
          /\ boot' = [ boot EXCEPT !.pc = "init_done" ]
       \/ boot' = InitFailed(boot)
    /\ UNCHANGED << locals, issued, cur, parked, cancelAt, fmt >>

\* The application is built and the handlers are registered; the builder
\* may raise, and start() re-raises.
StartBuild ==
    /\ boot.pc = "init_done"
    /\ \/ boot' = [ boot EXCEPT !.pc = "run_polling", !.handlers = TRUE ]
       \/ boot' = [ boot EXCEPT !.pc = "failed", !.raised = "InvalidToken" ]
    /\ UNCHANGED << locals, issued, cur, parked, cancelAt, fmt >>

\* run_polling(): updates are dispatched to the handlers, or it raises and
\* start() re-raises.
StartPolling ==
    /\ boot.pc = "run_polling"
    /\ \/ boot' = [ boot EXCEPT !.pc = "polling" ]
       \/ boot' = [ boot EXCEPT !.pc = "failed", !.raised = "RuntimeError" ]
    /\ UNCHANGED << locals, issued, cur, parked, cancelAt, fmt >>

NextStart ==
    \/ StartInit
    \/ InitFetch
    \/ InitParse
    \/ InitClient
    \/ InitTest
    \/ StartBuild
    \/ StartPolling
    \/ Next

\* The program from start(): initialisation, then requests.
SpecStart == InitStart /\ [][NextStart]_vars

(* ------------------------------------------------------------------ *)
(* format_file_size()                                                   *)
(* ------------------------------------------------------------------ *)
size_names == << "B", "KB", "MB", "GB" >>

\* Digits the arguments are made of.
DigitSamples == { 0, 1, Radix \div 2 - 1, Radix \div 2, Radix - 1 }

\* The arguments: 0, and the numbers of up to MaxDigits digits.
FormatInputs ==
    { << 0 >> } \cup
    UNION { { d \in [ 1..len -> DigitSamples ] : d[len] # 0 } :
            len \in 1..MaxDigits }

\* The value of a digit sequence.
RECURSIVE Value(_)
Value(d) == IF d = << >> THEN 0 ELSE Head(d) + Radix * Value(Tail(d))

\* The loop test of line 318 with > for >=.
LoopContinuesStrict(whole, i) ==
    /\ Len(whole) > 1
    /\ whole # << 0, 1 >>
    /\ i < Len(size_names) - 1

\* The loop test of line 318: size_bytes >= 1024 and i < 3. size_bytes is
\* whole plus a fraction, so it is at least 1024 when whole has a second
\* digit.
LoopContinues(whole, i) ==
    /\ Len(whole) > 1
    /\ i < Len(size_names) - 1

\* The loop of lines 318-320. Dividing by 1024.0 is exact: the lowest
\* digit of the integer part becomes the first digit of the fraction.
\* frac has its most significant digit first.
RECURSIVE Scale(_, _, _)
Scale(whole, frac, i) ==
    IF LoopContinues(whole, i)
    THEN Scale(Tail(whole), << Head(whole) >> \o frac, i + 1)
    ELSE [ whole |-> whole, frac |-> frac, i |-> i ]

\* Ten times a fraction: the digits of the product's fraction, and the
\* integer part carry.
RECURSIVE TimesTen(_)
TimesTen(frac) ==
    IF frac = << >>
    THEN [ frac |-> << >>, carry |-> 0 ]
    ELSE LET rest10 == TimesTen(Tail(frac))
             c == 10 * Head(frac) + rest10.carry
         IN  [ frac |-> << c % Radix >> \o rest10.frac,
               carry |-> c \div Radix ]

\* A fraction against one half: "lt", "eq" or "gt".
HalfCompare(frac) ==
    IF frac = << >> \/ Head(frac) < Radix \div 2 THEN "lt"
    ELSE IF Head(frac) > Radix \div 2 THEN "gt"
    ELSE IF \A k \in 2..Len(frac) : frac[k] = 0 THEN "eq"
    ELSE "gt"

\* The format {:.1f}: the value rounded to one decimal, a tie going to the
\* even digit.
OneDecimal(whole, frac) ==
    LET t10 == TimesTen(frac)
        cmp == HalfCompare(t10.frac)
        up == cmp = "gt" \/ (cmp = "eq" /\ t10.carry % 2 = 1)
        t == IF up THEN t10.carry + 1 ELSE t10.carry
    IN  [ whole |-> IF t = 10 THEN Value(whole) + 1 ELSE Value(whole),
          tenth |-> IF t = 10 THEN 0 ELSE t ]

\* format_file_size(size_bytes), lines 311-322.
format_file_size(n) ==
    IF n = << 0 >>
    THEN Rendered("B", 0, 0, 0)
    ELSE LET sc == Scale(n, << >>, 0)
             r == OneDecimal(sc.whole, sc.frac)
         IN  Rendered(size_names[sc.i + 1], r.whole, r.tenth, 1)

InitFormat ==
    /\ pc = "idle"
    /\ file_size = 0
    /\ InitLocals
    /\ issued = 0
    /\ cur = 1
    /\ parked = NoTransfer
    /\ cancelAt = -1
    /\ boot = BootPolling
    /\ \E n \in FormatInputs : fmt = [ NoFormat EXCEPT !.n = n ]

\* One call of format_file_size.
FormatFileSize ==
    /\ fmt.out.unit = "none"
    /\ fmt' = [ fmt EXCEPT !.out = format_file_size(fmt.n) ]
    /\ UNCHANGED << locals, issued, cur, parked, cancelAt, boot >>

NextFormat == FormatFileSize

\* format_file_size applied to each of the arguments.
SpecFormat == InitFormat /\ [][NextFormat]_vars

(* ------------------------------------------------------------------ *)
(* Cancellation of a chunked transfer                                   *)
(* ------------------------------------------------------------------ *)
\* The awaits of upload_large_file: get_file, the CDN GET, a chunk read,
\* a progress edit. A task is cancelled while it is suspended in one.
LargeAwaitPcs ==
    { "large_get_file", "large_cdn_get", "large_read", "large_progress" }

\* Where the coroutine is once CancelledError has been raised at the await
\* at: the one outcome a cancellation that is ignored would have.
AfterCancelIgnored(at) == { at }

\* Where the coroutine is once CancelledError has been raised at the await
\* at. Since Python 3.8 CancelledError is a BaseException: neither
\* "except Exception" catches it and it leaves process_file ("done"). In
\* Python 3.7 it is an Exception: line 307 catches it and upload_large_file
\* returns False ("pf_result").
AfterCancel(at) == { "done", "pf_result" }

\* The task that runs the transfer is cancelled while suspended.
Cancel ==
    /\ pc \in LargeAwaitPcs
    /\ cancelAt = -1
    /\ cancelAt' = Len(calls)
    /\ \E to \in AfterCancel(pc) :
          /\ pc' = to
          /\ escaped' = (to = "done")
          /\ success' = IF to = "pf_result" THEN "False" ELSE success
    /\ UNCHANGED << file_size, strategy, session_id, offset, chunk_num, chunk,
                    streamLen, remaining, shortReads, calls, msgs >>
    /\ UNCHANGED << issued, cur, parked, boot, fmt >>

NextCancel ==
    \/ Next
    \/ Cancel

\* One request through process_file whose task may be cancelled.
SpecCancel == Init /\ [][NextCancel]_vars

(* ------------------------------------------------------------------ *)
(* Vocabulary of the properties                                         *)
(* ------------------------------------------------------------------ *)
SessionOps == {"begin", "append", "finish"}

ChunkOps == {"append", "finish"}

\* upload_small_file or upload_large_file has returned.
UploadReturned == success # "unset"

\* No call to the source provider or the storage service has raised.
AllCallsOk == \A k \in DOMAIN calls : calls[k].ok

\* The appends among the first n calls that returned.
AckedAppends(n) ==
    SelectSeq(SubSeq(calls, 1, n), LAMBDA c : c.op = "append" /\ c.ok)

\* The stream delivers exactly the declared size, in reads of CHUNK_SIZE.
ExactStream == streamLen = file_size /\ shortReads = 0

CeilDiv(a, b) == (a + b - 1) \div b

LastMsgKind == IF msgs = << >> THEN "none" ELSE msgs[Len(msgs)].kind

\* No call to the messaging front end has raised.
AllMsgsOk == \A k \in DOMAIN msgs : msgs[k].ok

\* A message of this kind was sent (delivered or not).
MsgSent(kind) == \E k \in DOMAIN msgs : msgs[k].kind = kind

\* The "Processing ..." reply that opens process_file was delivered.
ReplyDelivered == msgs # << >> /\ msgs[1].ok

(* ------------------------------------------------------------------ *)
(* Properties                                                           *)
(* ------------------------------------------------------------------ *)

\* C1: for every declared size s process_file selects exactly one strategy:
\* too large iff s > MAX_TELEGRAM_FILE_SIZE, inline iff
\* s <= MAX_SMALL_FILE_SIZE, chunked otherwise, and only the selected upload
\* function runs; 0 and MAX_SMALL_FILE_SIZE are inline,
\* MAX_SMALL_FILE_SIZE + 1 and MAX_TELEGRAM_FILE_SIZE are chunked,
\* MAX_TELEGRAM_FILE_SIZE + 1 is refused. (The checks are reached once the
\* "Processing ..." reply has returned.)
C1_StrategyBySize ==
    /\ (file_size # NoneSize /\ ReplyDelivered /\ pc # "pf_check")
          => strategy # "none"
    /\ strategy # "none" =>
        /\ (strategy = "TooLarge") <=> (file_size > MAX_TELEGRAM_FILE_SIZE)
        /\ (strategy = "Inline") <=> (file_size <= MAX_SMALL_FILE_SIZE)
        /\ (strategy = "Chunked") <=>
              (file_size > MAX_SMALL_FILE_SIZE
                 /\ file_size <= MAX_TELEGRAM_FILE_SIZE)
        /\ file_size \in {0, MAX_SMALL_FILE_SIZE} => strategy = "Inline"
        /\ file_size \in {MAX_SMALL_FILE_SIZE + 1, MAX_TELEGRAM_FILE_SIZE}
              => strategy = "Chunked"
        /\ file_size = MAX_TELEGRAM_FILE_SIZE + 1 => strategy = "TooLarge"
        /\ strategy = "TooLarge" => calls = << >>
        /\ strategy = "Inline" =>
              \A k \in DOMAIN calls : calls[k].op \in {"get_file", "download", "put"}
        /\ strategy = "Chunked" =>
              \A k \in DOMAIN calls : calls[k].op \notin {"download", "put"}
        /\ pc = "done" =>
              CASE strategy = "TooLarge" -> ~UploadReturned
                [] strategy = "Inline" -> NumCalls({"get_file"}) = 1
                [] strategy = "Chunked" -> NumCalls({"get_file"}) = 1

\* C1 witness: the largest accepted size went through the chunked upload.
C1_Witness ==
    /\ pc = "done"
    /\ file_size = MAX_TELEGRAM_FILE_SIZE
    /\ strategy = "Chunked"
    /\ NumCalls({"begin"}) = 1

\* C2: when the declared size exceeds MAX_TELEGRAM_FILE_SIZE no call is
\* issued to the source provider or to the storage service at any point of
\* the request, no upload outcome is reported, and the request ends with the
\* "File too large!" outcome: that edit is what follows the opening reply,
\* and it is the last message whenever the front end delivered it.
C2_TooLargeNoCalls ==
    file_size > MAX_TELEGRAM_FILE_SIZE =>
        /\ NumCalls(SourceOps) = 0
        /\ NumCalls(StorageOps) = 0
        /\ calls = << >>
        /\ ~UploadReturned
        /\ \A k \in DOMAIN msgs :
              msgs[k].kind \notin {"success", "failed", "progress"}
        /\ (pc = "done" /\ ReplyDelivered) =>
              /\ Len(msgs) >= 2
              /\ msgs[2].kind = "too_large"
        /\ (pc = "done" /\ AllMsgsOk) => LastMsgKind = "too_large"

\* C2 witness: a 5 GiB object was refused.
C2_Witness ==
    /\ pc = "done"
    /\ file_size = MAX_TELEGRAM_FILE_SIZE + 1024
    /\ LastMsgKind = "too_large"
    /\ AllMsgsOk
    /\ calls = << >>

\* C3: in every state of a chunked upload offset is the sum of the lengths of
\* the chunks whose append returned, and the offset passed to each append or
\* finish call is the sum of the lengths of the chunks appended before it; a
\* chunk whose append raised does not advance offset.
C3_OffsetIsAckedBytes ==
    /\ offset = SumLen(AckedAppends(Len(calls)))
    /\ \A k \in DOMAIN calls :
          calls[k].op \in ChunkOps =>
              calls[k].off = SumLen(AckedAppends(k - 1))
    /\ \A j, k \in DOMAIN calls :
          (j < k /\ calls[j].op \in ChunkOps /\ calls[k].op \in ChunkOps)
              => calls[j].off + calls[j].len <= calls[k].off

\* C3 witness: after two appends that returned and a short read among them,
\* the third append raised.
C3_Witness ==
    /\ Len(AckedAppends(Len(calls))) = 2
    /\ shortReads = 1
    /\ offset = CHUNK_SIZE + ShortReadLen
    /\ calls # << >>
    /\ calls[Len(calls)].op = "append"
    /\ ~calls[Len(calls)].ok
    /\ calls[Len(calls)].off = offset

\* C4: when the stream of a chunked upload delivers exactly the declared
\* size in reads of CHUNK_SIZE, the chunk of the final read, and no other,
\* goes to the finish call; finish is called at most once, exactly once when
\* the upload returns True, and no append is issued after it.
C4_FinalReadFinishes ==
    (strategy = "Chunked" /\ ExactStream) =>
        /\ NumCalls({"finish"}) <= 1
        /\ \A j, k \in DOMAIN calls :
              (calls[j].op = "finish" /\ j < k) => calls[k].op \notin ChunkOps
        /\ \A k \in DOMAIN calls :
              calls[k].op \in ChunkOps =>
                  ( (calls[k].op = "finish")
                      <=> (calls[k].off + calls[k].len = streamLen) )
        /\ (pc = "large_chunk" /\ remaining > 0) =>
              offset + chunk < file_size
        /\ (UploadReturned /\ AllCallsOk /\ AllMsgsOk) =>
              /\ success = "True"
              /\ remaining = 0
              /\ NumCalls({"finish"}) = 1
              /\ calls[Len(calls)].op = "finish"

\* C4 witness: an exact stream of SampleSize was read to its end and committed.
C4_Witness ==
    /\ strategy = "Chunked"
    /\ ExactStream
    /\ file_size = SampleSize
    /\ success = "True"
    /\ remaining = 0
    /\ calls[Len(calls)].op = "finish"
    /\ NumCalls({"append"}) > 0

C6_StorageFailureAborts ==
    \A k \in DOMAIN calls :
        (calls[k].op \in SessionOps /\ ~calls[k].ok) =>
            /\ success = "False"
            /\ \A j \in DOMAIN calls : j > k => calls[j].op \notin StorageOps
            /\ k = Len(calls)
            /\ pc \in {"pf_result", "pf_except", "done"}
            /\ ~MsgSent("success")
            /\ pc # "pf_result" => MsgSent("failed")

\* C6 witness: the append of the third chunk raised and the request ended
\* with "Upload failed!".
C6_Witness ==
    /\ pc = "done"
    /\ LastMsgKind = "failed"
    /\ NumCalls({"append"}) = 3
    /\ chunk_num = 3
    /\ calls[Len(calls)].op = "append"
    /\ ~calls[Len(calls)].ok
    /\ file_size = SampleSize

\* C7: a chunked upload of an exact stream of S bytes in reads of C bytes that
\* returns True has made ceil(S/C) reads, ceil(S/C) - 1 appends and one
\* finish, the finish at offset (ceil(S/C) - 1) * C with the last
\* S - (ceil(S/C) - 1) * C bytes.
C7_CallCounts ==
    (strategy = "Chunked" /\ ExactStream /\ success = "True") =>
        LET n == CeilDiv(file_size, CHUNK_SIZE)
            last == calls[Len(calls)]
        IN  /\ chunk_num = n
            /\ NumCalls({"read"}) = n
            /\ NumCalls({"append"}) = n - 1
            /\ NumCalls({"finish"}) = 1
            /\ NumCalls({"begin"}) = 1
            /\ last.op = "finish"
            /\ last.off = (n - 1) * CHUNK_SIZE
            /\ last.len = file_size - (n - 1) * CHUNK_SIZE
            /\ offset = last.off
            /\ last.len >= 1 /\ last.len <= CHUNK_SIZE

\* C7 witness: 50 MiB in chunks of 8 MiB: 7 reads, 6 appends, one finish at
\* offset 48 with 2 MiB.
C7_Witness ==
    /\ strategy = "Chunked"
    /\ ExactStream
    /\ success = "True"
    /\ file_size = 50
    /\ chunk_num = 7
    /\ NumCalls({"append"}) = 6
    /\ NumCalls({"finish"}) = 1
    /\ calls[Len(calls)].off = 48
    /\ calls[Len(calls)].len = 2

\* C8: an inline transfer issues at most one put call and no session call,
\* repeats no call, and returns True exactly when get_file, the download and
\* the put all returned.
C8_InlineSinglePut ==
    strategy = "Inline" =>
        /\ NumCalls({"put"}) <= 1
        /\ NumCalls({"get_file"}) <= 1
        /\ NumCalls({"download"}) <= 1
        /\ NumCalls(SessionOps) = 0
        /\ UploadReturned =>
              /\ (success = "True") <=> (AllCallsOk /\ NumCalls({"put"}) = 1)
              /\ ~AllCallsOk => ~calls[Len(calls)].ok
        /\ (UploadReturned /\ pc # "pf_result") =>
              /\ MsgSent("success") <=> success = "True"
              /\ MsgSent("failed") <=> success = "False"

\* C8 witness: the put of a 10 MiB object raised, once, and the request ended
\* with "Upload failed!".
C8_Witness ==
    /\ strategy = "Inline"
    /\ file_size = SmallSample
    /\ pc = "done"
    /\ success = "False"
    /\ NumCalls({"put"}) = 1
    /\ ~calls[Len(calls)].ok
    /\ calls[Len(calls)].op = "put"

\* C9: when the stream of a chunked upload delivers more bytes than the
\* declared size and the upload returns True, the bytes sent to the storage
\* service (appends and finish) are all the bytes of the stream.
C9_AllStreamBytesSent ==
    (strategy = "Chunked" /\ streamLen > file_size /\ success = "True") =>
        SumLen(CallsOf(ChunkOps)) = streamLen

\* C10: a chunk is sent with finish when offset + len(chunk) reaches the
\* declared size or when the stream ends with it; a chunked upload whose
\* stream ends before the declared size still issues exactly one finish
\* call, as its last storage call.
C10_FinishOnStreamEnd ==
    strategy = "Chunked" =>
        /\ \A k \in DOMAIN calls :
              (calls[k].op \in ChunkOps
                 /\ calls[k].off + calls[k].len >= file_size)
                  => calls[k].op = "finish"
        /\ (UploadReturned /\ AllCallsOk /\ AllMsgsOk /\ streamLen >= 0
              /\ streamLen < file_size) =>
              /\ NumCalls({"finish"}) = 1
              /\ calls[Len(calls)].op = "finish"

\* C11: a progress update that cannot be delivered during a chunked upload
\* does not fail the transfer: as long as no call to the source provider or
\* the storage service raised, the upload has not returned False.
C11_ProgressFailureHarmless ==
    ( strategy = "Chunked"
        /\ AllCallsOk
        /\ \E k \in DOMAIN msgs : msgs[k].kind = "progress" /\ ~msgs[k].ok )
      => success # "False"

\* C12: no exception leaves process_file: whatever the source provider, the
\* storage service or the front end did, process_file returns normally.
C12_NoExceptionEscapes == pc = "done" => ~escaped

\* The append calls among the first n of a log that returned.
AckedIn(log, n) ==
    SelectSeq(SubSeq(log, 1, n), LAMBDA c : c.op = "append" /\ c.ok)

\* A transfer's session calls all name its own session, at gap-free offsets.
OwnCursor(t) ==
    /\ t.offset = SumLen(AckedIn(t.calls, Len(t.calls)))
    /\ \A k \in DOMAIN t.calls :
          /\ t.calls[k].op = "begin" /\ t.calls[k].ok
                => t.calls[k].sid = t.session_id
          /\ t.calls[k].op \in ChunkOps
                => /\ t.calls[k].sid = t.session_id
                   /\ t.session_id # 0
                   /\ t.calls[k].off = SumLen(AckedIn(t.calls, k - 1))

\* C13: when two chunked transfers interleave at their awaits, each one's
\* append and finish calls carry the session id its own beginSession
\* returned and the gap-free offset of its own acknowledged bytes, and the
\* two sessions are different ones, whatever the interleaving.
C13_TransfersIndependent ==
    /\ OwnCursor(Current)
    /\ OwnCursor(parked)
    /\ (session_id # 0 /\ parked.session_id # 0)
          => session_id # parked.session_id

\* C13 witness: both transfers are in the middle of their uploads at once,
\* each with an acknowledged append, and the one that began its session
\* first is the one running.
C13_Witness ==
    /\ parked.pc = "large_read"
    /\ pc = "large_progress"
    /\ Len(AckedIn(parked.calls, Len(parked.calls))) >= 1
    /\ Len(AckedIn(calls, Len(calls))) >= 1
    /\ session_id # 0
    /\ session_id < parked.session_id
    /\ offset # parked.offset

\* C14: once a chunked transfer has been cancelled at one of its awaits, it
\* never runs the chunk loop again: no beginSession, append or finish call
\* (the only session operations the code has; it has no abort or delete)
\* follows the cancellation, so a session that was begun is left open.
C14_CancelStopsCalls ==
    cancelAt >= 0 =>
        /\ pc \in { "pf_result", "pf_except", "done" }
        /\ Len(calls) = cancelAt
        /\ \A k \in DOMAIN calls : calls[k].op # "finish"

\* C14 witness: a transfer cancelled after an append had returned: its
\* session exists, holds bytes and was never finished.
C14_Witness ==
    /\ cancelAt >= 0
    /\ pc = "done"
    /\ escaped
    /\ session_id # 0
    /\ offset > 0
    /\ \E k \in DOMAIN calls : calls[k].op = "append" /\ calls[k].ok
    /\ \A k \in DOMAIN calls : calls[k].op # "finish"

\* n whitespace items.
Pad(n) == [ i \in 1..n |-> "ws" ]

\* tok is text without its surrounding whitespace.
IsTrimmed(text, tok) ==
    /\ tok = << >> \/ (tok[1] # "ws" /\ tok[Len(tok)] # "ws")
    /\ \E a, b \in 0..Len(text) : text = Pad(a) \o tok \o Pad(b)

\* The text has no JSON punctuation or literal in it: a raw string.
IsRawText(text) == \A i \in DOMAIN text : text[i] \in { "ws", "T", "x" }

\* The text is a JSON object whose access_token is the string literal lit.
IsTokenDocument(text, lit) ==
    \E a, b \in 0..Len(text) :
        text = Pad(a) \o << "{", "k", ":", lit, "}" >> \o Pad(b)

BootParsed ==
    boot.pc \in { "init_client", "init_test", "init_done", "run_polling",
                  "polling" }

BootClientSet ==
    boot.pc \in { "init_test", "init_done", "run_polling", "polling" }

BootInitSucceeded ==
    /\ boot.status = HTTP_OK
    /\ boot.access_token = ValidToken
    /\ boot.dropbox_client = "Dropbox"

\* C15: initialize_dropbox takes from a 200 response the trimmed body when
\* the body is a raw string and the access_token entry when it is a JSON
\* object with one, and stores a client built from it; a response with
\* another status, or a body that yields no usable token, ends in
\* TelegramFileBotError; start() registers handlers, and process_file runs,
\* only after initialize_dropbox has returned.
C15_InitializeDropbox ==
    /\ BootParsed =>
          /\ boot.status = HTTP_OK
          /\ IsRawText(boot.body) => IsTrimmed(boot.body, boot.access_token)
          /\ IsTokenDocument(boot.body, "s") => boot.access_token = << "T" >>
          /\ IsTokenDocument(boot.body, "q") => boot.access_token = << "x" >>
    /\ BootClientSet => boot.dropbox_client = "Dropbox"
    /\ boot.status = OtherStatus =>
          /\ boot.pc = "failed"
          /\ boot.raised = "TelegramFileBotError"
          /\ boot.dropbox_client = "None"
    /\ (boot.pc = "failed" /\ ~BootInitSucceeded) =>
          boot.raised = "TelegramFileBotError"
    /\ boot.handlers => BootInitSucceeded
    /\ (pc # "idle" \/ calls # << >> \/ msgs # << >>) =>
          (boot.handlers /\ BootInitSucceeded /\ boot.raised = "none")

\* C15 witness: the token came from a JSON document with whitespace around
\* it, the handlers were registered and a chunked transfer has succeeded.
C15_Witness ==
    /\ boot.pc = "polling"
    /\ boot.body = << "ws", "{", "k", ":", "s", "}", "ws" >>
    /\ boot.access_token = ValidToken
    /\ pc = "done"
    /\ strategy = "Chunked"
    /\ success = "True"

\* 1024 to the power k.
PowerOfRadix(k) == [ i \in 1..(k + 1) |-> IF i = k + 1 THEN 1 ELSE 0 ]

\* C16: format_file_size(0) is "0 B"; for n >= 1 the unit is the k-th of
\* B, KB, MB, GB, k being the number of divisions by 1024 that leave at
\* least 1024 before them, at most 3, so that 1024 GB and more stay in GB;
\* and 1024^k for k in 0..3 is rendered as 1.0 of its unit.
C16_FormatFileSize ==
    fmt.out.unit # "none" =>
        /\ fmt.n = << 0 >> => fmt.out = Rendered("B", 0, 0, 0)
        /\ fmt.n # << 0 >> =>
              /\ fmt.out.decimals = 1
              /\ fmt.out.unit =
                    << "B", "KB", "MB", "GB" >>[Min(Len(fmt.n) - 1, 3) + 1]
        /\ Len(fmt.n) > 4 => (fmt.out.unit = "GB" /\ fmt.out.whole >= Radix)
        /\ \A k \in 0..3 :
              fmt.n = PowerOfRadix(k) =>
                  (fmt.out.whole = 1 /\ fmt.out.tenth = 0)

\* C16 witness: 1024 GB has been formatted, and is rendered as 1024.0 GB.
C16_Witness ==
    /\ fmt.n = PowerOfRadix(4)
    /\ fmt.out = Rendered("GB", Radix, 0, 1)

\* The reads of the stream that returned a chunk, the progress edits and
\* the append and finish calls, each in the order they were made.
ChunkReads == SelectSeq(calls, LAMBDA c : c.op = "read" /\ c.ok)
ProgressMsgs == SelectSeq(msgs, LAMBDA m : m.kind = "progress")
ChunkCalls == CallsOf(ChunkOps)

\* The final messages of process_file that were delivered.
FinalKinds == { "too_large", "success", "failed", "error" }
DeliveredFinals == SelectSeq(msgs, LAMBDA m : m.kind \in FinalKinds /\ m.ok)

\* C17: a chunk shorter than CHUNK_SIZE, read while the stream has more and
\* ending before the declared size, is passed to append and not to finish,
\* with its own length; when the append returns the offset advances by
\* that length and the loop reads the next chunk.
C17_ShortReadAppended ==
    [][ ( /\ pc = "large_chunk"
          /\ chunk > 0 /\ chunk < CHUNK_SIZE
          /\ remaining > 0
          /\ offset + chunk < file_size )
        => /\ Len(calls') = Len(calls) + 1
           /\ calls'[Len(calls')].op = "append"
           /\ calls'[Len(calls')].off = offset
           /\ calls'[Len(calls')].len = chunk
           /\ calls'[Len(calls')].ok =>
                 /\ pc' = "large_read"
                 /\ offset' = offset + chunk
                 /\ success' = "unset" ]_vars

\* C17 witness: a short chunk was appended in the middle of the stream and
\* the next chunk has been read after it.
C17_Witness ==
    \E k \in DOMAIN calls :
        /\ k + 1 \in DOMAIN calls
        /\ calls[k].op = "append" /\ calls[k].ok
        /\ calls[k].len = ShortReadLen
        /\ calls[k].off > 0
        /\ calls[k + 1].op = "read" /\ calls[k + 1].ok

\* C18: when process_file has ended, at most one session was begun (exactly
\* one by a chunked transfer, none by an inline or rejected one) and
\* exactly one final message (too large, successful, failed or error) was
\* delivered.
C18_OneSessionOneOutcome ==
    pc = "done" =>
        /\ NumCalls({ "begin" }) <= 1
        /\ strategy = "Chunked" => NumCalls({ "begin" }) = 1
        /\ strategy \in { "Inline", "TooLarge" } => NumCalls({ "begin" }) = 0
        /\ Len(DeliveredFinals) = 1

\* C19: the progress edits made are numbered 1, 2, ... without gap or
\* repetition, one for each chunk read: as many as chunks read, less the
\* one whose edit is about to be made; only the last may have failed.
C19_OneProgressPerChunk ==
    /\ chunk_num = Len(ChunkReads)
    /\ Len(ProgressMsgs) =
          Len(ChunkReads) - (IF pc = "large_progress" THEN 1 ELSE 0)
    /\ \A k \in DOMAIN ProgressMsgs :
          /\ ProgressMsgs[k].num = k
          /\ k < Len(ProgressMsgs) => ProgressMsgs[k].ok

\* C19 witness: a finished upload of four chunks, one of them short, with
\* four progress edits.
C19_Witness ==
    /\ pc = "done"
    /\ success = "True"
    /\ AllMsgsOk
    /\ Len(ProgressMsgs) = 4
    /\ Len(ChunkReads) = 4
    /\ shortReads = 1

\* C20: the progress edit of a chunk that does not reach the declared size
\* is made once that chunk's append has returned, and the bytes it reports
\* include the chunk.
C20_ProgressAfterAppend ==
    \A k \in DOMAIN ProgressMsgs :
        SumLen(SubSeq(ChunkReads, 1, k)) < file_size =>
            /\ k <= Len(ChunkCalls)
            /\ ChunkCalls[k].op = "append"
            /\ ChunkCalls[k].ok
            /\ ProgressMsgs[k].off = ChunkCalls[k].off + ChunkCalls[k].len

\* The finish calls that returned.
CommittedFinishes == SelectSeq(calls, LAMBDA c : c.op = "finish" /\ c.ok)

\* C21: upload_large_file returns True only when exactly one finish call
\* was made and it returned, whatever the length of the stream; the
\* "Upload successful" message of a chunked transfer is sent only for a
\* committed session.
C21_SuccessMeansCommitted ==
    ( /\ strategy = "Chunked"
      /\ success = "True" \/ MsgSent("success") )
    => /\ NumCalls({ "finish" }) = 1
       /\ Len(CommittedFinishes) = 1

\* C22: in a chunked upload with a positive declared size the offset stays
\* below the declared size: at every append and finish call, at every
\* progress edit (so the percentage shown is at least 0 and below 100), and
\* as the sum of the chunks appended.
C22_OffsetBelowDeclared ==
    (strategy = "Chunked" /\ file_size > 0) =>
        /\ 0 <= offset /\ offset < file_size
        /\ \A k \in DOMAIN calls :
              calls[k].op \in ChunkOps =>
                  (0 <= calls[k].off /\ calls[k].off < file_size)
        /\ \A k \in DOMAIN msgs :
              msgs[k].kind = "progress" =>
                  /\ msgs[k].off < file_size
                  /\ 0 <= msgs[k].off * 100
                  /\ msgs[k].off * 100 < 100 * file_size
        /\ SumLen(CallsOf({ "append" })) < file_size

\* C22 witness: an upload whose finish call started less than one chunk
\* below the declared size, after appends and a progress edit at that
\* offset.
C22_Witness ==
    /\ strategy = "Chunked"
    /\ pc = "done"
    /\ success = "True"
    /\ \E k \in DOMAIN calls :
          /\ calls[k].op = "finish" /\ calls[k].ok
          /\ calls[k].off > 0
          /\ calls[k].off + CHUNK_SIZE > file_size
          /\ \E m \in DOMAIN msgs :
                msgs[m].kind = "progress" /\ msgs[m].off = calls[k].off

\* The GET of the CDN did not give a 200 response.
CdnRefused == \E k \in DOMAIN calls : calls[k].op = "cdn_get" /\ ~calls[k].ok

\* C23: a chunked transfer begins its session before it opens the source
\* stream; when the CDN then does not answer 200 the transfer fails with
\* one beginSession call and no append or finish call: the session stays
\* uncommitted and the user is told the upload failed.
C23_CdnFailureAfterBegin ==
    /\ \A k \in DOMAIN calls :
          calls[k].op \in { "cdn_get", "read" } =>
              \E j \in 1..(k - 1) : calls[j].op = "begin" /\ calls[j].ok
    /\ CdnRefused =>
          /\ pc \in { "pf_result", "pf_except", "done" }
          /\ success = "False"
          /\ session_id # 0
          /\ NumCalls({ "begin" }) = 1
          /\ NumCalls(ChunkOps) = 0
          /\ NumCalls({ "read" }) = 0
          /\ ~MsgSent("success")
          /\ (pc = "done" /\ AllMsgsOk) => LastMsgKind = "failed"

\* C23 witness: the CDN refused after the session was begun, and the
\* transfer has ended with the failure message.
C23_Witness ==
    /\ CdnRefused
    /\ pc = "done"
    /\ AllMsgsOk
    /\ LastMsgKind = "failed"
    /\ session_id # 0
    /\ calls[Len(calls)].op = "cdn_get"
    /\ calls[Len(calls) - 1].op = "begin"

====
